---- MODULE Spec2Model ----
(***************************************************************************)
(* Model of the request-dispatch subsystem of the GraphQL client:          *)
(* Requester.Request, requestJSON, requestMultipart and setRequestHeaders  *)
(* (src/v2/requester.go), the error values and the Client of               *)
(* src/v2/errors.go and the Request value of src/unnamed/part_000.         *)
(*                                                                         *)
(* One Request call is a walk of the program counter pc through the        *)
(* statements of the call.  Every library call whose result the code       *)
(* tests (err != nil) is a step whose outcome the environment chooses.     *)
(***************************************************************************)
EXTENDS Integers, Sequences, FiniteSets, TLC

(* ------------------------------ bounds --------------------------------- *)
MaxCalls == 2
MaxFiles == 2
MaxVars == 1
MaxChunks == 2

(* ------------------------- program constants --------------------------- *)
StatusOK == 200
Statuses == {StatusOK, 500}

(* ------------------------------ errors --------------------------------- *)
\* An error value: msg is the outermost message, cause the text of the
\* error it wraps ("" when it wraps nothing).  Error() is "msg: cause".
NilErr == [msg |-> "", cause |-> ""]

\* errors.New(text)
New(text) == [msg |-> text, cause |-> ""]

ErrInvalidInput == New("cannot send files with PostFields option")
ErrCreateVariablesField == New("create variables field")
ErrEncodeVariablesField == New("encode variables")
ErrCreateFile == New("create form file")
ErrReadBody == New("read body")
ErrDecode == New("decode")
ErrCopy == New("copy")
ErrRequest == New("graphql: server returned a non-200 status code")

\* The failures the libraries below the Requester can report.
Causes == {"library failure"}

\* errors.Wrap(err, message): err is an unwrapped library error
Wrap(e, message) == [msg |-> message, cause |-> e.msg]

NewErrorUnwrapped(e, wrappedErr) == e

NewError(e, wrappedErr) == Wrap(e, wrappedErr.msg)

\* fmt.Errorf("%v: %v", ErrRequest, httpRes.StatusCode)
StatusError(status) == New(ErrRequest.msg \o ": " \o ToString(status))

(* ----------------------------- the Request value ----------------------- *)
NoHeader == [k \in {} |-> <<>>]

\* The header maps a caller hands over: key -> ordered list of values.  The
\* map is the caller's own, so its keys need not be in canonical form.
HeaderChoices ==
    { NoHeader,
      "Authorization" :> <<"Bearer token">>,
      "Content-Type" :> <<"text/plain", "text/html">>,
      ("Content-Type" :> <<"text/plain">>) @@ ("content-type" :> <<"x/lower">>),
      ("Authorization" :> <<"Bearer token">>) @@ ("Accept" :> <<"text/xml">>) }

\* Request.File appends one attachment; n calls give attachments 1..n, the
\* k-th reading from the caller's stream k.
File(files, fieldname, filename, r) ==
    Append(files, [Field |-> fieldname, Name |-> filename, R |-> r])

RECURSIVE FilesOf(_)
FilesOf(n) == IF n = 0 THEN <<>> ELSE File(FilesOf(n - 1), "file", n, n)

\* NewRequest followed by Var, File and Header mutations.
Requests ==
    [q : {"query {}"}, vars : 0..MaxVars,
     files : {FilesOf(n) : n \in 0..MaxFiles}, Header : HeaderChoices]

NoRequest == [q |-> "", vars |-> 0, files |-> <<>>, Header |-> NoHeader]

(* ----------------------------- the Response ---------------------------- *)
\* var response Response[T, E]
ZeroResponse == [Data |-> "", Errors |-> <<>>]

\* A response body, by what encoding/json makes of it: syntax says whether
\* it is a JSON document at all, data / errors what the document holds for
\* the field: nothing, a value of the field's type, or a value of another
\* type.
FieldKinds == {"absent", "ok", "mismatch"}
Bodies ==
    {[syntax |-> FALSE, data |-> "absent", errors |-> "absent"]}
    \cup [syntax : {TRUE}, data : FieldKinds, errors : FieldKinds]

\* json.Unmarshal(body, &response).  An invalid document is rejected before
\* anything is stored.  In a valid one every field whose value fits is
\* stored, a field whose value has the wrong type is skipped, and the first
\* such mismatch is returned as the error after the whole document is done.
Unmarshal(body, response) ==
    IF ~body.syntax
    THEN [res |-> response, err |-> "invalid character"]
    ELSE [res |-> [Data |-> IF body.data = "ok" THEN "yes" ELSE response.Data,
                   Errors |-> IF body.errors = "ok"
                              THEN <<[Message |-> "bad request",
                                      Extensions |-> "extension error"]>>
                              ELSE response.Errors],
          err |-> IF body.data = "mismatch" \/ body.errors = "mismatch"
                  THEN "cannot unmarshal" ELSE ""]

(* ----------------------------- response body stream -------------------- *)
\* A body stream delivers len chunks and then EOF, unless it fails: then the
\* read after chunk number failAt returns an error instead.

\* io.ReadAll: reads until EOF or the first error.  n is the number of
\* chunks consumed.
ReadOneChunk(len, fails, failAt) ==
    IF fails /\ failAt = 0
    THEN [n |-> 0, err |-> "unexpected EOF"]
    ELSE [n |-> 1, err |-> ""]

ReadAll(len, fails, failAt) ==
    IF fails
    THEN [n |-> failAt, err |-> "unexpected EOF"]
    ELSE [n |-> len, err |-> ""]

(* ----------------------------- headers --------------------------------- *)
AcceptJSON == "application/json; charset=utf-8"
MultipartContentType == "multipart/form-data; boundary=b"

\* textproto.CanonicalMIMEHeaderKey on the keys in use
Canonical(k) == IF k = "content-type" THEN "Content-Type" ELSE k

CanonicalKeys == {"Content-Type", "Accept", "Authorization"}

\* the header of a request fresh from http.NewRequestWithContext
EmptyHeader == [k \in CanonicalKeys |-> <<>>]

HeaderSet(h, key, value) == [h EXCEPT ![Canonical(key)] = <<value>>]

HeaderAdd(h, key, value) == [h EXCEPT ![Canonical(key)] = Append(@, value)]

\* for i := range values { httpReq.Header.Add(key, values[i]) }
RECURSIVE AddValues(_, _, _, _)
AddValues(h, key, values, n) ==
    IF n > Len(values) THEN h
    ELSE AddValues(HeaderAdd(h, key, values[n]), key, values, n + 1)

\* for key, values := range req.Header, the keys visited in the order given
RECURSIVE AddKeys(_, _, _, _)
AddKeys(h, H, order, n) ==
    IF n > Len(order) THEN h
    ELSE AddKeys(AddValues(h, order[n], H[order[n]], 1), H, order, n + 1)

\* The orders in which a range over the map H can visit its keys.
KeyOrders(H) ==
    {o \in [1..Cardinality(DOMAIN H) -> DOMAIN H] :
        \A a, b \in DOMAIN o : a # b => o[a] # o[b]}

setRequestHeadersReplacing(c, r, contentType, order) ==
    [built |-> TRUE, Close |-> c.closeReq,
     Header |-> HeaderSet(HeaderSet(
                    AddKeys(EmptyHeader, r.Header, order, 1),
                    "Content-Type", contentType), "Accept", AcceptJSON)]

setRequestHeaders(c, r, contentType, order) ==
    [built |-> TRUE, Close |-> c.closeReq,
     Header |-> AddKeys(HeaderSet(HeaderSet(EmptyHeader,
                            "Content-Type", contentType), "Accept", AcceptJSON),
                        r.Header, order, 1)]

NoHTTPRequest == [built |-> FALSE, Close |-> FALSE, Header |-> EmptyHeader]

(* ----------------------------- decisions of the code ------------------- *)
\* Request: len(req.files) > 0 && !r.client.useMultipartForm
FilesWithMultipart(c, r) == Len(r.files) > 0 /\ c.useMultipartForm

FilesWithoutMultipart(c, r) == Len(r.files) > 0 /\ ~c.useMultipartForm

\* requestJSON / requestMultipart: what follows a transport error when n
\* transport calls were made so far.
RetryOnce(n, doPc) == IF n < 2 THEN doPc ELSE "done"

AfterTransportError(n, doPc) == "done"

\* requestJSON, after the body was read: decode it and choose the result
requestJSONDecodeStatusLast(status, body, response) ==
    LET u == Unmarshal(body, response) IN
    IF u.err # ""
    THEN [res |-> u.res, err |-> Wrap(New(u.err), "decoding response")]
    ELSE [res |-> u.res, err |-> NilErr]

requestJSONDecodeStatusFirst(status, body, response) ==
    LET u == Unmarshal(body, response) IN
    IF status # StatusOK
    THEN [res |-> u.res, err |-> StatusError(status)]
    ELSE IF u.err # ""
         THEN [res |-> u.res, err |-> Wrap(New(u.err), "decoding response")]
         ELSE [res |-> u.res, err |-> NilErr]

requestJSONDecode(status, body, response) ==
    LET u == Unmarshal(body, response) IN
    IF u.err # ""
    THEN [res |-> u.res,
          err |-> IF status # StatusOK THEN StatusError(status)
                  ELSE Wrap(New(u.err), "decoding response")]
    ELSE [res |-> u.res, err |-> NilErr]

\* requestMultipart, the body read failed with readErr
requestMultipartReadFailure(status, readErr) ==
    IF status # StatusOK THEN StatusError(status)
    ELSE NewError(New(readErr), ErrReadBody)

\* requestMultipart, after the body was read: decode it and choose the result
requestMultipartDecodeStatusChecked(status, body, response) ==
    requestJSONDecode(status, body, response)

requestMultipartDecode(status, body, response) ==
    LET u == Unmarshal(body, response) IN
    IF u.err # ""
    THEN [res |-> u.res, err |-> NewError(New(u.err), ErrDecode)]
    ELSE [res |-> u.res, err |-> NilErr]

\* requestMultipart: the statement that follows file i - 1 of the range loop
FileLoopOffByOne(i, files) ==
    IF i < Len(files) THEN "mp_CreateFormFile" ELSE "mp_Close"

FileLoop(i, files) == IF i <= Len(files) THEN "mp_CreateFormFile" ELSE "mp_Close"

(* ----------------------------- state ----------------------------------- *)
VARIABLES
    client,     \* the Client the Requester is bound to
    req,        \* the Request of the current call
    pc,         \* the statement the current call is at
    i,          \* requestMultipart: index of the range loop over req.files
    res, err,   \* the pair Request returns (meaningful when pc = "done")
    httpReq,    \* the outbound request
    httpRes,    \* what the transport returned
    bodyRead,   \* chunks of httpRes.Body consumed
    bodyClosed, \* httpRes.Body was closed
    readLog,    \* the attachments whose stream was read, in order
    fault,      \* the failure the environment injected in this call
    doCalls,    \* transport calls made by the current call
    totalDo,    \* transport calls made by all calls
    okCalls,    \* calls that returned a nil error
    calls       \* calls started

vars == <<client, req, pc, i, res, err, httpReq, httpRes, bodyRead, bodyClosed,
          readLog, fault, doCalls, totalDo, okCalls, calls>>

NoFault == [step |-> "none", at |-> 0, cause |-> ""]

NoHTTPResponse ==
    [got |-> FALSE, StatusCode |-> 0,
     body |-> [syntax |-> FALSE, data |-> "absent", errors |-> "absent"],
     len |-> 0, fails |-> FALSE, failAt |-> 0]

\* NewClient(endpoint, opts...) with or without UseMultipartForm and
\* ImmediatelyCloseReqBody
Endpoints == {"http://host/graphql", "://host"}

Clients == [endpoint : Endpoints, useMultipartForm : BOOLEAN, closeReq : BOOLEAN]

Init ==
    /\ client \in Clients
    /\ req = NoRequest
    /\ pc = "idle"
    /\ i = 0
    /\ res = ZeroResponse
    /\ err = NilErr
    /\ httpReq = NoHTTPRequest
    /\ httpRes = NoHTTPResponse
    /\ bodyRead = 0
    /\ bodyClosed = FALSE
    /\ readLog = <<>>
    /\ fault = NoFault
    /\ doCalls = 0
    /\ totalDo = 0
    /\ okCalls = 0
    /\ calls = 0

\* Entry of a call with request r: the locals of the call are fresh.
Enter(r) ==
    /\ calls < MaxCalls
    /\ req' = r
    /\ pc' = "Request"
    /\ i' = 0
    /\ res' = ZeroResponse
    /\ err' = NilErr
    /\ httpReq' = NoHTTPRequest
    /\ httpRes' = NoHTTPResponse
    /\ bodyRead' = 0
    /\ bodyClosed' = FALSE
    /\ readLog' = <<>>
    /\ fault' = NoFault
    /\ doCalls' = 0
    /\ calls' = calls + 1
    /\ UNCHANGED <<client, totalDo, okCalls>>

\* The caller builds a Request and calls requester.Request(ctx, req).
NewCall ==
    /\ pc \in {"idle", "done"}
    /\ \E r \in Requests : Enter(r)

\* The caller calls Request again with the same inputs.
RepeatCall ==
    /\ pc = "done"
    /\ Enter(req)

\* return response, e: the deferred httpRes.Body.Close() runs when a
\* response was received.
Return(response, e) ==
    /\ pc' = "done"
    /\ res' = response
    /\ err' = e
    /\ okCalls' = IF e = NilErr THEN okCalls + 1 ELSE okCalls

Fail(step, at, cause) == fault' = [step |-> step, at |-> at, cause |-> cause]

\* What a library call reports: "" for success, or a failure.
Outcomes == {""} \cup Causes

\* What the transport can return as a response.  The content of a body
\* whose read fails is never seen, so it is not distinguished.
Responses ==
    {[got |-> TRUE, StatusCode |-> s, body |-> b, len |-> n,
      fails |-> FALSE, failAt |-> 0] :
        s \in Statuses, b \in Bodies, n \in 1..MaxChunks}
    \cup
    UNION {{[got |-> TRUE, StatusCode |-> s, body |-> NoHTTPResponse.body,
             len |-> n, fails |-> TRUE, failAt |-> k] :
                s \in Statuses, k \in 0..n} : n \in 1..MaxChunks}

\* url.Parse inside http.NewRequestWithContext
ParseURL(endpoint) == IF endpoint = "://host" THEN "missing protocol scheme" ELSE ""

(* ----------------------------- Requester.Request ----------------------- *)
Request ==
    /\ pc = "Request"
    /\ IF FilesWithoutMultipart(client, req)
       THEN Return(res, ErrInvalidInput)
       ELSE /\ pc' = IF client.useMultipartForm THEN "mp_WriteField" ELSE "js_Encode"
            /\ UNCHANGED <<res, err, okCalls>>
    /\ UNCHANGED <<client, req, i, httpReq, httpRes, bodyRead, bodyClosed,
                   readLog, fault, doCalls, totalDo, calls>>

(* ----------------------------- requestJSON ----------------------------- *)
\* json.NewEncoder(&request).Encode(requestQuery{...}): the query is a
\* string and nil variables encode as null, so only a variable's value can
\* make the encoding fail.
js_Encode ==
    /\ pc = "js_Encode"
    /\ \E f \in Outcomes :
        IF f # "" /\ req.vars > 0
        THEN Return(res, New(f)) /\ Fail("EncodeJSON", 0, f)
        ELSE pc' = "js_NewRequest" /\ UNCHANGED <<res, err, okCalls, fault>>
    /\ UNCHANGED <<client, req, i, httpReq, httpRes, bodyRead, bodyClosed,
                   readLog, doCalls, totalDo, calls>>

js_NewRequest ==
    /\ pc = "js_NewRequest"
    /\ LET f == ParseURL(client.endpoint) IN
        IF f # ""
        THEN Return(res, New(f)) /\ Fail("NewRequest", 0, f)
        ELSE pc' = "js_setRequestHeaders" /\ UNCHANGED <<res, err, okCalls, fault>>
    /\ UNCHANGED <<client, req, i, httpReq, httpRes, bodyRead, bodyClosed,
                   readLog, doCalls, totalDo, calls>>

js_setRequestHeaders ==
    /\ pc = "js_setRequestHeaders"
    /\ \E order \in KeyOrders(req.Header) :
        httpReq' = setRequestHeaders(client, req, AcceptJSON, order)
    /\ pc' = "js_Do"
    /\ UNCHANGED <<client, req, i, res, err, httpRes, bodyRead, bodyClosed,
                   readLog, fault, doCalls, totalDo, okCalls, calls>>

\* r.client.httpClient.Do(httpReq): a transport error or a response
Do(doPc, readPc) ==
    /\ pc = doPc
    /\ doCalls' = doCalls + 1
    /\ totalDo' = totalDo + 1
    /\ \/ \E f \in Causes :
            LET next == AfterTransportError(doCalls + 1, doPc) IN
            /\ Fail("Do", 0, f)
            /\ IF next = "done" THEN Return(res, New(f))
               ELSE pc' = next /\ UNCHANGED <<res, err, okCalls>>
            /\ UNCHANGED httpRes
       \/ /\ httpRes' \in Responses
          /\ pc' = readPc
          /\ UNCHANGED <<res, err, okCalls, fault>>
    /\ UNCHANGED <<client, req, i, httpReq, bodyRead, bodyClosed, readLog, calls>>

js_Do == Do("js_Do", "js_ReadAll")

js_ReadAll ==
    /\ pc = "js_ReadAll"
    /\ LET rd == ReadAll(httpRes.len, httpRes.fails, httpRes.failAt) IN
        /\ bodyRead' = rd.n
        /\ IF rd.err # ""
           THEN /\ Return(res, NewError(New(rd.err), ErrReadBody))
                /\ Fail("ReadAll", 0, rd.err)
                /\ bodyClosed' = TRUE
           ELSE /\ pc' = "js_Unmarshal"
                /\ UNCHANGED <<res, err, okCalls, fault, bodyClosed>>
    /\ UNCHANGED <<client, req, i, httpReq, httpRes, readLog, doCalls, totalDo, calls>>

js_Unmarshal ==
    /\ pc = "js_Unmarshal"
    /\ LET d == requestJSONDecode(httpRes.StatusCode, httpRes.body, res)
           u == Unmarshal(httpRes.body, res) IN
        /\ Return(d.res, d.err)
        /\ IF u.err # "" THEN Fail("Unmarshal", 0, u.err) ELSE UNCHANGED fault
    /\ bodyClosed' = TRUE
    /\ UNCHANGED <<client, req, i, httpReq, httpRes, bodyRead, readLog,
                   doCalls, totalDo, calls>>

(* ----------------------------- requestMultipart ------------------------ *)
\* The multipart writer writes into an in-memory buffer.  The code tests the
\* result of each of its calls, and each test is modelled with both
\* outcomes.
\* writer.WriteField("query", req.q.String())
mp_WriteField ==
    /\ pc = "mp_WriteField"
    /\ \E f \in Outcomes :
        IF f # ""
        THEN Return(res, New(f)) /\ Fail("WriteField", 0, f) /\ UNCHANGED i
        ELSE /\ IF req.vars > 0
                THEN pc' = "mp_CreateFormField" /\ UNCHANGED i
                ELSE pc' = FileLoop(1, req.files) /\ i' = 1
             /\ UNCHANGED <<res, err, okCalls, fault>>
    /\ UNCHANGED <<client, req, httpReq, httpRes, bodyRead, bodyClosed,
                   readLog, doCalls, totalDo, calls>>

\* writer.CreateFormField("variables")
mp_CreateFormField ==
    /\ pc = "mp_CreateFormField"
    /\ \E f \in Outcomes :
        IF f # ""
        THEN Return(res, NewError(New(f), ErrCreateVariablesField))
             /\ Fail("CreateFormField", 0, f)
        ELSE pc' = "mp_EncodeVars" /\ UNCHANGED <<res, err, okCalls, fault>>
    /\ UNCHANGED <<client, req, i, httpReq, httpRes, bodyRead, bodyClosed,
                   readLog, doCalls, totalDo, calls>>

\* json.NewEncoder(io.MultiWriter(...)).Encode(req.vars)
mp_EncodeVars ==
    /\ pc = "mp_EncodeVars"
    /\ \E f \in Outcomes :
        IF f # ""
        THEN Return(res, NewError(New(f), ErrEncodeVariablesField))
             /\ Fail("EncodeVars", 0, f) /\ UNCHANGED i
        ELSE /\ pc' = FileLoop(1, req.files) /\ i' = 1
             /\ UNCHANGED <<res, err, okCalls, fault>>
    /\ UNCHANGED <<client, req, httpReq, httpRes, bodyRead, bodyClosed,
                   readLog, doCalls, totalDo, calls>>

\* writer.CreateFormFile(req.files[i].Field, req.files[i].Name)
mp_CreateFormFile ==
    /\ pc = "mp_CreateFormFile"
    /\ \E f \in Outcomes :
        IF f # ""
        THEN Return(res, NewError(New(f), ErrCreateFile))
             /\ Fail("CreateFormFile", i, f)
        ELSE pc' = "mp_Copy" /\ UNCHANGED <<res, err, okCalls, fault>>
    /\ UNCHANGED <<client, req, i, httpReq, httpRes, bodyRead, bodyClosed,
                   readLog, doCalls, totalDo, calls>>

\* io.Copy(part, req.files[i].R): the attachment's stream is read
mp_Copy ==
    /\ pc = "mp_Copy"
    /\ readLog' = Append(readLog, req.files[i].R)
    /\ \E f \in Outcomes :
        IF f # ""
        THEN Return(res, NewError(New(f), ErrCopy))
             /\ Fail("Copy", i, f) /\ UNCHANGED i
        ELSE /\ pc' = FileLoop(i + 1, req.files) /\ i' = i + 1
             /\ UNCHANGED <<res, err, okCalls, fault>>
    /\ UNCHANGED <<client, req, httpReq, httpRes, bodyRead, bodyClosed,
                   doCalls, totalDo, calls>>

\* writer.Close()
mp_Close ==
    /\ pc = "mp_Close"
    /\ \E f \in Outcomes :
        IF f # ""
        THEN Return(res, Wrap(New(f), "close writer")) /\ Fail("CloseWriter", 0, f)
        ELSE pc' = "mp_NewRequest" /\ UNCHANGED <<res, err, okCalls, fault>>
    /\ UNCHANGED <<client, req, i, httpReq, httpRes, bodyRead, bodyClosed,
                   readLog, doCalls, totalDo, calls>>

mp_NewRequest ==
    /\ pc = "mp_NewRequest"
    /\ LET f == ParseURL(client.endpoint) IN
        IF f # ""
        THEN Return(res, New(f)) /\ Fail("NewRequest", 0, f)
        ELSE pc' = "mp_setRequestHeaders" /\ UNCHANGED <<res, err, okCalls, fault>>
    /\ UNCHANGED <<client, req, i, httpReq, httpRes, bodyRead, bodyClosed,
                   readLog, doCalls, totalDo, calls>>

\* r.setRequestHeaders(httpReq, req, writer.FormDataContentType())
mp_setRequestHeaders ==
    /\ pc = "mp_setRequestHeaders"
    /\ \E order \in KeyOrders(req.Header) :
        httpReq' = setRequestHeaders(client, req, MultipartContentType, order)
    /\ pc' = "mp_Do"
    /\ UNCHANGED <<client, req, i, res, err, httpRes, bodyRead, bodyClosed,
                   readLog, fault, doCalls, totalDo, okCalls, calls>>

mp_Do == Do("mp_Do", "mp_ReadAll")

mp_ReadAll ==
    /\ pc = "mp_ReadAll"
    /\ LET rd == ReadAll(httpRes.len, httpRes.fails, httpRes.failAt) IN
        /\ bodyRead' = rd.n
        /\ IF rd.err # ""
           THEN /\ Return(res, requestMultipartReadFailure(httpRes.StatusCode, rd.err))
                /\ Fail("ReadAll", 0, rd.err)
                /\ bodyClosed' = TRUE
           ELSE /\ pc' = "mp_Unmarshal"
                /\ UNCHANGED <<res, err, okCalls, fault, bodyClosed>>
    /\ UNCHANGED <<client, req, i, httpReq, httpRes, readLog, doCalls, totalDo, calls>>

mp_Unmarshal ==
    /\ pc = "mp_Unmarshal"
    /\ LET d == requestMultipartDecode(httpRes.StatusCode, httpRes.body, res)
           u == Unmarshal(httpRes.body, res) IN
        /\ Return(d.res, d.err)
        /\ IF u.err # "" THEN Fail("Unmarshal", 0, u.err) ELSE UNCHANGED fault
    /\ bodyClosed' = TRUE
    /\ UNCHANGED <<client, req, i, httpReq, httpRes, bodyRead, readLog,
                   doCalls, totalDo, calls>>

(* ----------------------------- specification --------------------------- *)
Next ==
    \/ NewCall \/ RepeatCall \/ Request
    \/ js_Encode \/ js_NewRequest \/ js_setRequestHeaders
    \/ js_Do \/ js_ReadAll \/ js_Unmarshal
    \/ mp_WriteField \/ mp_CreateFormField \/ mp_EncodeVars
    \/ mp_CreateFormFile \/ mp_Copy \/ mp_Close \/ mp_NewRequest
    \/ mp_setRequestHeaders \/ mp_Do \/ mp_ReadAll \/ mp_Unmarshal

Spec == Init /\ [][Next]_vars

(* ----------------------------- properties ------------------------------ *)
\* C1: a call whose request carries a file attachment while the Client is
\* not multipart returns ErrInvalidInput itself, and never gets past the
\* check: no outbound request is built and the transport is never called.
C1_FilesNeedMultipart ==
    (Len(req.files) > 0 /\ ~client.useMultipartForm /\ pc # "Request") =>
        /\ pc = "done"
        /\ err = ErrInvalidInput
        /\ doCalls = 0
        /\ ~httpReq.built
        /\ ~httpRes.got

C1_Witness ==
    /\ pc = "done" /\ Len(req.files) > 0 /\ ~client.useMultipartForm
    /\ err.msg = "cannot send files with PostFields option"

\* C2: a call makes at most one transport call; a call that returned a nil
\* error made exactly one of its own; over a sequence of calls there are at
\* least as many transport calls as successful calls (none is answered
\* without the transport) and at most as many as calls (none is retried).
C2_AtMostOneAttempt ==
    /\ doCalls <= 1
    /\ (pc = "done" /\ err = NilErr) => doCalls = 1
    /\ okCalls <= totalDo
    /\ totalDo <= calls

C2_Witness ==
    pc = "done" /\ calls = 2 /\ okCalls = 2 /\ totalDo = 2 /\ doCalls = 1

\* C3: JSON strategy, the body was read and did not decode: with a status
\* other than 200 the error is the status text and carries no decode error,
\* with status 200 it is "decoding response" wrapping the parse error.
C3_JSONDecodeFailure ==
    (pc = "done" /\ ~client.useMultipartForm /\ fault.step = "Unmarshal") =>
        /\ httpRes.StatusCode # 200 =>
              /\ err.msg = "graphql: server returned a non-200 status code: "
                                \o ToString(httpRes.StatusCode)
              /\ err.cause = ""
        /\ httpRes.StatusCode = 500 =>
              err.msg = "graphql: server returned a non-200 status code: 500"
        /\ httpRes.StatusCode = 200 =>
              err = [msg |-> "decoding response", cause |-> fault.cause]

C3_Witness ==
    /\ pc = "done" /\ ~client.useMultipartForm /\ fault.step = "Unmarshal"
    /\ httpRes.StatusCode = 500 /\ ~httpRes.body.syntax
    /\ err.msg = "graphql: server returned a non-200 status code: 500"

\* C4: multipart strategy, a response was received: a failed read gives the
\* status error when the status is not 200 and a "read body" failure when
\* it is 200; a failed decode gives a "decode" failure whatever the status.
C4_MultipartFailures ==
    (pc = "done" /\ client.useMultipartForm /\ httpRes.got) =>
        /\ (fault.step = "ReadAll" /\ httpRes.StatusCode # 200) =>
              err = [msg |-> "graphql: server returned a non-200 status code: "
                                \o ToString(httpRes.StatusCode),
                     cause |-> ""]
        /\ (fault.step = "ReadAll" /\ httpRes.StatusCode = 200) =>
              err = [msg |-> "read body", cause |-> fault.cause]
        /\ fault.step = "Unmarshal" =>
              err = [msg |-> "decode", cause |-> fault.cause]

C4_Witness ==
    /\ pc = "done" /\ client.useMultipartForm /\ fault.step = "Unmarshal"
    /\ httpRes.StatusCode # 200 /\ err.msg = "decode"

\* C5: in both strategies, a body that was read and decodes gives a nil
\* error and the decoded Response, whatever the status and whether or not
\* the Response carries GraphQL errors.
C5_DecodedIsSuccess ==
    (/\ pc = "done" /\ httpRes.got /\ ~httpRes.fails
     /\ httpRes.body.syntax
     /\ httpRes.body.data # "mismatch" /\ httpRes.body.errors # "mismatch") =>
        /\ err = NilErr
        /\ res.Data = (IF httpRes.body.data = "ok" THEN "yes" ELSE "")
        /\ Len(res.Errors) = (IF httpRes.body.errors = "ok" THEN 1 ELSE 0)

C5_Witness ==
    /\ pc = "done" /\ httpRes.got /\ httpRes.StatusCode = 500
    /\ httpRes.body.syntax /\ httpRes.body.errors = "ok" /\ httpRes.body.data = "ok"
    /\ err = NilErr /\ Len(res.Errors) = 1 /\ res.Data = "yes"

\* C6: on every exit path the returned pair is a Response with a nil error
\* or the zero-value Response with a non-nil error.
C6_ZeroResponseWithError ==
    pc = "done" => (err = NilErr \/ res = ZeroResponse)

\* The steps before the HTTP call whose failure is a local failure.
LocalSteps ==
    {"WriteField", "CreateFormField", "EncodeVars", "CreateFormFile", "Copy",
     "CloseWriter", "EncodeJSON", "NewRequest"}

\* The messages of the named categories.
CategoryMessages ==
    {ErrInvalidInput.msg, ErrCreateVariablesField.msg, ErrEncodeVariablesField.msg,
     ErrCreateFile.msg, ErrCopy.msg, ErrReadBody.msg, ErrDecode.msg, ErrRequest.msg}

\* C7, as stated: every local failure before the HTTP call makes Request
\* return at once an error wrapped with one of the named categories.
C7_EveryLocalFailureCategorized ==
    fault.step \in LocalSteps =>
        /\ pc = "done"
        /\ err.msg \in CategoryMessages
        /\ err.cause = fault.cause

\* C7, amended: every local failure before the HTTP call makes Request
\* return at once a non-nil error that carries the failure, without a
\* transport call; the variables-field, variables-encoding, file-part and
\* copy failures are wrapped with their named category, a writer-close
\* failure with "close writer", and the query-field, JSON-encoding and
\* request-construction failures are returned as they are.
C7_LocalFailureReturned ==
    fault.step \in LocalSteps =>
        /\ pc = "done"
        /\ doCalls = 0
        /\ ~httpRes.got
        /\ err # NilErr
        /\ err = CASE fault.step = "CreateFormField" ->
                        [msg |-> "create variables field", cause |-> fault.cause]
                  [] fault.step = "EncodeVars" ->
                        [msg |-> "encode variables", cause |-> fault.cause]
                  [] fault.step = "CreateFormFile" ->
                        [msg |-> "create form file", cause |-> fault.cause]
                  [] fault.step = "Copy" ->
                        [msg |-> "copy", cause |-> fault.cause]
                  [] fault.step = "CloseWriter" ->
                        [msg |-> "close writer", cause |-> fault.cause]
                  [] OTHER -> [msg |-> fault.cause, cause |-> ""]

C7_Witness ==
    /\ pc = "done" /\ fault.step = "EncodeVars"
    /\ err = [msg |-> "encode variables", cause |-> "library failure"]

\* C8, as stated: when the transport returned a response, its body is
\* fully drained and closed when Request returns, on every exit path.
C8_BodyDrainedAndClosed ==
    (pc = "done" /\ httpRes.got) => (bodyClosed /\ bodyRead = httpRes.len)

\* C8, amended: when the transport returned a response, its body is closed
\* when Request returns, on every exit path; it was read to the end of the
\* stream when the read succeeded, and up to the failing read, no further,
\* when the read failed.
C8_BodyReadAndClosed ==
    (pc = "done" /\ httpRes.got) =>
        /\ bodyClosed
        /\ ~httpRes.fails => bodyRead = httpRes.len
        /\ httpRes.fails => (bodyRead = httpRes.failAt /\ fault.step = "ReadAll")

C8_Witness ==
    /\ pc = "done" /\ httpRes.got /\ bodyClosed
    /\ httpRes.fails /\ bodyRead < httpRes.len

\* s is t with some elements left out
IsSubSeq(s, t) ==
    \E f \in [1..Len(s) -> 1..Len(t)] :
        /\ \A a, b \in 1..Len(s) : a < b => f[a] < f[b]
        /\ \A a \in 1..Len(s) : t[f[a]] = s[a]

\* the number of values the caller's map holds for the outbound key c
RECURSIVE CallerValues(_, _, _)
CallerValues(H, keys, c) ==
    IF keys = {} THEN 0
    ELSE LET k == CHOOSE x \in keys : TRUE IN
         (IF (IF k = "content-type" THEN "Content-Type" ELSE k) = c
          THEN Len(H[k]) ELSE 0) + CallerValues(H, keys \ {k}, c)

\* C9: on the outbound request the first Content-Type is the computed one
\* and the first Accept is the JSON one; every value of every caller key is
\* there, in the caller's order within the key, and nothing was replaced: a
\* key holds the computed value (if any) and all the caller's values.
C9_HeadersMerged ==
    httpReq.built =>
        LET out == httpReq.Header IN
        /\ out["Content-Type"][1] =
              (IF client.useMultipartForm THEN "multipart/form-data; boundary=b"
               ELSE "application/json; charset=utf-8")
        /\ out["Accept"][1] = "application/json; charset=utf-8"
        /\ \A k \in DOMAIN req.Header :
              IsSubSeq(req.Header[k],
                       out[IF k = "content-type" THEN "Content-Type" ELSE k])
        /\ \A c \in DOMAIN out :
              Len(out[c]) = (IF c \in {"Content-Type", "Accept"} THEN 1 ELSE 0)
                            + CallerValues(req.Header, DOMAIN req.Header, c)
        /\ "Content-Type" \in DOMAIN req.Header => Len(out["Content-Type"]) > 1

C9_Witness ==
    /\ httpReq.built
    /\ "Content-Type" \in DOMAIN req.Header /\ "content-type" \in DOMAIN req.Header
    /\ httpReq.Header["Content-Type"] =
           <<"application/json; charset=utf-8", "x/lower", "text/plain">>

\* C10: multipart strategy: the streams read so far are those of the first
\* attachments, in the order supplied, each once; the transport is called
\* only after all were read; a part-creation failure at attachment i gives a
\* "create form file" failure with attachments 1..i-1 read, a copy failure a
\* "copy" failure with attachments 1..i read, and in both cases the call is
\* over and the transport was not called.
C10_FilesInOrder ==
    /\ Len(readLog) <= Len(req.files)
    /\ \A j \in 1..Len(readLog) : readLog[j] = req.files[j].R
    /\ doCalls > 0 => Len(readLog) = Len(req.files)
    /\ fault.step = "CreateFormFile" =>
          /\ pc = "done" /\ doCalls = 0
          /\ err = [msg |-> "create form file", cause |-> fault.cause]
          /\ Len(readLog) = fault.at - 1
    /\ fault.step = "Copy" =>
          /\ pc = "done" /\ doCalls = 0
          /\ err = [msg |-> "copy", cause |-> fault.cause]
          /\ Len(readLog) = fault.at

C10_Witness ==
    /\ pc = "done" /\ fault.step = "Copy" /\ fault.at = 1
    /\ Len(req.files) = 2 /\ readLog = <<1>> /\ err.msg = "copy"

====
